---- MODULE Spec2Model ----
(***************************************************************************)
(* Model of pdf_to_csv_processor.py: the response normalizer               *)
(* (GeminiProcessor), the row store (CSVWriter) and the per-table entry    *)
(* point (PDFProcessor.process_table).                                     *)
(*                                                                         *)
(* Text is a sequence of one-character strings.  A JSON value is a record  *)
(* tagged by t: null, str, int, float, obj (a function from keys to        *)
(* values) or list (a sequence of values).                                 *)
(*                                                                         *)
(* Specifications: Spec (process_table calls against the output files),    *)
(* SpecConc (two writers in _write_csv), SpecParse (get_table_data),       *)
(* SpecNum (clean_numeric_values), SpecNorm (get_structured_data),         *)
(* SpecSchema (_load_schema_configs).                                      *)
(***************************************************************************)
EXTENDS Integers, Sequences, FiniteSets, TLC

VARIABLES
    table_configs,  \* CSVWriter.table_configs: table name -> (filename, headers)
    files,          \* the output directory: file name -> file
    hashSeed,       \* the salt of str hashes of the running process
    nRuns,          \* number of process_table calls made so far
    last,           \* the last process_table call: inputs, intermediate values, result
    runs,           \* per file, the row batches of the writes that completed
    intact,         \* per file, no write to it has failed part-way
    derived,        \* <<document, company_id cell>> of persisted rows whose
                    \* model-supplied company_id was absent, null or empty
    numIn, numOut,  \* argument and result of clean_numeric_values (SpecNum)
    tdTable, tdEnv, tdOut,  \* arguments and result of get_table_data (SpecParse)
    cfile,          \* the table file two writers share (SpecConc)
    wr,             \* per writer, its position in _write_csv and its open file
    sdEnv, sdOut,   \* argument and result of get_structured_data (SpecNorm)
    ddlSrc, ddlOut  \* schemas.ddl and the result of _load_schema_configs (SpecSchema)

pipeVars == <<table_configs, files, hashSeed, nRuns, last, runs, intact, derived>>
numVars == <<numIn, numOut>>
tdVars == <<tdTable, tdEnv, tdOut>>
concVars == <<cfile, wr>>
sdVars == <<sdEnv, sdOut>>
ddlVars == <<ddlSrc, ddlOut>>
vars == <<pipeVars, numVars, tdVars, concVars, sdVars, ddlVars>>

(***************************************************************************)
(* Bounds                                                                  *)
(***************************************************************************)
MaxStrLen == 3
MaxRuns == 2
MaxRows == 1
MaxDdlLines == 4

(***************************************************************************)
(* JSON values as json.loads produces them                                 *)
(***************************************************************************)
Null == [t |-> "null"]
Str(s) == [t |-> "str", s |-> s]
IntV(i) == [t |-> "int", i |-> i]
FloatV(neg, m, e) == [t |-> "float", neg |-> neg, m |-> m, e |-> e]
Obj(o) == [t |-> "obj", o |-> o]
Lst(l) == [t |-> "list", l |-> l]

\* a dict with one key
Field(k, v) == k :> v

\* the outcome of a call that raised, and of a call that has not run yet
Raise == [t |-> "raise"]
Pending == [t |-> "pending"]

(***************************************************************************)
(* Strings                                                                 *)
(***************************************************************************)
Digits == {"0", "1", "2", "3", "4", "5", "6", "7", "8", "9"}

DigitVal(c) ==
    CASE c = "0" -> 0 [] c = "1" -> 1 [] c = "2" -> 2 [] c = "3" -> 3
      [] c = "4" -> 4 [] c = "5" -> 5 [] c = "6" -> 6 [] c = "7" -> 7
      [] c = "8" -> 8 [] c = "9" -> 9

\* str.replace(c, '') for every c in cs
RemoveChars(s, cs) == SelectSeq(s, LAMBDA c : c \notin cs)

\* str.isdigit(): non-empty and every character a digit
IsDigit(s) == Len(s) > 0 /\ \A i \in 1..Len(s) : s[i] \in Digits

CountChar(s, c) == Cardinality({i \in 1..Len(s) : s[i] = c})

RECURSIVE DigitsToNat(_)
DigitsToNat(s) ==
    IF Len(s) = 0 THEN 0
    ELSE 10 * DigitsToNat(SubSeq(s, 1, Len(s) - 1)) + DigitVal(s[Len(s)])

\* a decimal m * 10^-e with the trailing zeros of the fraction dropped
RECURSIVE NormFloat(_, _, _)
NormFloat(neg, m, e) ==
    IF e > 0 /\ m % 10 = 0 THEN NormFloat(neg, m \div 10, e - 1)
    ELSE FloatV(neg, m, e)

\* float(s) for a string of digits, '-' and '.': ValueError unless the string
\* is [-]digits[.[digits]] or [-].digits
PyFloat(s) ==
    LET neg == Len(s) > 0 /\ s[1] = "-"
        body == IF neg THEN Tail(s) ELSE s
        dot == IF CountChar(body, ".") = 0 THEN Len(body) + 1
               ELSE CHOOSE i \in 1..Len(body) :
                        body[i] = "." /\ \A j \in 1..(i - 1) : body[j] # "."
        ip == SubSeq(body, 1, dot - 1)
        fp == SubSeq(body, dot + 1, Len(body))
    IN  IF /\ CountChar(body, "-") = 0
           /\ CountChar(body, ".") <= 1
           /\ IsDigit(ip \o fp)
        THEN NormFloat(neg, DigitsToNat(ip \o fp), Len(fp))
        ELSE Raise

(***************************************************************************)
(* GeminiProcessor.clean_numeric_values                                    *)
(***************************************************************************)
\* the branch taken for one str value of a dict
CoerceStr(s) ==
    IF IsDigit(RemoveChars(s, {",", "-", "."}))
    THEN PyFloat(RemoveChars(s, {","}))
    ELSE Str(s)

RECURSIVE clean_numeric_values(_)
clean_numeric_values(data) ==
    IF data.t = "obj" THEN
        LET r == [k \in DOMAIN data.o |->
                    IF data.o[k].t = "str" THEN CoerceStr(data.o[k].s)
                    ELSE IF data.o[k].t \in {"obj", "list"}
                         THEN clean_numeric_values(data.o[k])
                         ELSE data.o[k]]
        IN  IF \E k \in DOMAIN r : r[k] = Raise THEN Raise ELSE Obj(r)
    ELSE IF data.t = "list" THEN
        LET r == [i \in 1..Len(data.l) |-> clean_numeric_values(data.l[i])]
        IN  IF \E i \in 1..Len(r) : r[i] = Raise THEN Raise ELSE Lst(r)
    ELSE data

(***************************************************************************)
(* Response text.  A text is a sequence of tokens: ws (white space),      *)
(* fence (three backticks), tag (the word json in any case), txt (prose    *)
(* without braces or backticks) and json (the text of one JSON document,   *)
(* v its value).                                                           *)
(***************************************************************************)
WS == [k |-> "ws"]
FENCE == [k |-> "fence"]
TAG == [k |-> "tag"]
TXT == [k |-> "txt"]
J(v) == [k |-> "json", v |-> v]

DecodeError == [t |-> "decode_error"]

MinOf(S) == CHOOSE x \in S : \A y \in S : x <= y
MaxOf(S) == CHOOSE x \in S : \A y \in S : x >= y

\* str.strip()
Strip(text) ==
    LET keep == {i \in 1..Len(text) : text[i] # WS}
    IN  IF keep = {} THEN << >> ELSE SubSeq(text, MinOf(keep), MaxOf(keep))

\* json.loads(text): white space around one JSON document is accepted,
\* anything else is a JSONDecodeError
json_loads(text) ==
    LET s == Strip(text)
    IN  IF Len(s) = 1 /\ s[1].k = "json" THEN s[1].v ELSE DecodeError

\* text.split('```')[1] for a text that starts with a fence
SplitFence1(text) ==
    LET later == {i \in 2..Len(text) : text[i] = FENCE}
        second == IF later = {} THEN Len(text) + 1 ELSE MinOf(later)
    IN  SubSeq(text, 2, second - 1)

\* lines 173-179 of get_table_data: the text with its Markdown fence removed
CleanMarkdown(text) ==
    LET c == Strip(text)
    IN  IF Len(c) > 0 /\ c[1] = FENCE
        THEN LET b == SplitFence1(c)
                 u == IF Len(b) > 0 /\ b[1] = TAG THEN Tail(b) ELSE b
             IN  Strip(u)
        ELSE c

(***************************************************************************)
(* GeminiProcessor.get_table_data                                          *)
(***************************************************************************)
\* the keys of the prompts dict
Prompts == {"company_info", "shareholding_pattern"}

\* lines 183-186: clean every row and return data["rows"]; a KeyError or a
\* TypeError is caught by the outer handler, which returns None
RowsOf(data) ==
    IF data.t # "obj" THEN Null
    ELSE IF "rows" \notin DOMAIN data.o THEN Null
    ELSE LET rows == data.o["rows"]
         IN  IF rows.t = "list" THEN
                 LET r == [i \in 1..Len(rows.l) |-> clean_numeric_values(rows.l[i])]
                 IN  IF \E i \in 1..Len(r) : r[i] = Raise THEN Null ELSE Lst(r)
             ELSE IF rows.t \in {"obj", "str"} THEN rows
             ELSE Null

\* every table name gets a prompt
get_table_dataAnyTable(table_name, env) ==
    IF env.k = "svcerr" THEN Null
    ELSE IF json_loads(env.text) # DecodeError THEN Null
    ELSE LET data == json_loads(CleanMarkdown(env.text))
         IN  IF data = DecodeError THEN Null ELSE RowsOf(data)

\* env is the outcome of model.generate_content: an error or a text.  None is
\* Null.  A text that parses directly leaves the inner try with data bound
\* and reaches the end of the function, which returns None.
get_table_data(table_name, env) ==
    IF table_name \notin Prompts THEN Null
    ELSE IF env.k = "svcerr" THEN Null
    ELSE IF json_loads(env.text) # DecodeError THEN Null
    ELSE LET data == json_loads(CleanMarkdown(env.text))
         IN  IF data = DecodeError THEN Null ELSE RowsOf(data)

(***************************************************************************)
(* CSVWriter                                                               *)
(***************************************************************************)
\* A file is absent or holds a sequence of lines; a line is a sequence of
\* cells; a header cell is a column name, a data cell a text.
AbsentFile == [exists |-> FALSE, lines |-> << >>]
FileOf(lines) == [exists |-> TRUE, lines |-> lines]
HeaderCell(c) == [col |-> c]
TextCell(s) == [txt |-> s]

RECURSIVE NatToDigits(_)
NatToDigits(n) ==
    LET d == CHOOSE c \in Digits : DigitVal(c) = n % 10
    IN  IF n < 10 THEN <<d>> ELSE Append(NatToDigits(n \div 10), d)

RECURSIVE ZeroPad(_, _)
ZeroPad(s, n) == IF Len(s) >= n THEN s ELSE ZeroPad(<<"0">> \o s, n)

\* repr of a float m * 10^-e, for the magnitudes repr writes without an
\* exponent
FloatRepr(neg, m, e) ==
    LET ds == ZeroPad(NatToDigits(m), e + 1)
        ip == SubSeq(ds, 1, Len(ds) - e)
        fp == IF e = 0 THEN <<"0">> ELSE SubSeq(ds, Len(ds) - e + 1, Len(ds))
    IN  (IF neg THEN <<"-">> ELSE << >>) \o ip \o <<".">> \o fp

\* the text csv.writer writes for a value: '' for None, the string itself,
\* str() of a number; a nested value is written as its brackets only
CellText(v) ==
    CASE v.t = "null" -> << >>
      [] v.t = "str" -> v.s
      [] v.t = "int" -> (IF v.i < 0 THEN <<"-">> \o NatToDigits(0 - v.i)
                         ELSE NatToDigits(v.i))
      [] v.t = "float" -> FloatRepr(v.neg, v.m, v.e)
      [] v.t = "obj" -> <<"{", "}">>
      [] v.t = "list" -> <<"[", "]">>

\* DictWriter.writeheader
writeheader(headers) == [i \in 1..Len(headers) |-> HeaderCell(headers[i])]

\* a missing key is left out of the record instead of written as ''
writerowNoRestval(headers, row) ==
    LET present == SelectSeq(headers, LAMBDA h : h \in DOMAIN row.o)
    IN  [i \in 1..Len(present) |-> TextCell(CellText(row.o[present[i]]))]

\* lines 432-433: row_data keeps the keys that are headers; DictWriter.writerow
\* writes the headers in order, restval '' for a missing key
writerow(headers, row) ==
    LET row_data == [k \in {h \in DOMAIN row.o : \E i \in 1..Len(headers) : headers[i] = h}
                        |-> row.o[k]]
    IN  [i \in 1..Len(headers) |->
            IF headers[i] \in DOMAIN row_data
            THEN TextCell(CellText(row_data[headers[i]]))
            ELSE TextCell(<< >>)]

\* the file is always opened for writing
OpenModeTruncate(file_exists) == "w"

\* line 423
OpenMode(file_exists) == IF file_exists THEN "a" ELSE "w"

\* the lines _write_csv writes, in order
CsvLines(file, headers, data) ==
    LET rows == IF data.t = "list" THEN data.l ELSE <<data>>
    IN  (IF file.exists THEN << >> ELSE <<writeheader(headers)>>)
          \o [i \in 1..Len(rows) |-> writerow(headers, rows[i])]

NoFault == [k |-> "none", n |-> 0]

\* _write_csv.  fault is what the environment does to the write: none; open
\* (open raises, the file is untouched); write (an OSError after n lines
\* reached the file); crash (the process dies after n lines reached the
\* file).  Opening in mode 'w' creates or truncates the file.
_write_csv(file, headers, data, fault) ==
    LET lines == CsvLines(file, headers, data)
        base == IF OpenMode(file.exists) = "w" THEN << >> ELSE file.lines
    IN  IF fault.k = "open" THEN [file |-> file, raised |-> TRUE]
        ELSE IF fault.k = "none"
             THEN [file |-> FileOf(base \o lines), raised |-> FALSE]
             ELSE [file |-> FileOf(base \o SubSeq(lines, 1, fault.n)),
                   raised |-> TRUE]

Truthy(v) ==
    CASE v.t = "null" -> FALSE
      [] v.t = "str" -> v.s # << >>
      [] v.t = "int" -> v.i # 0
      [] v.t = "float" -> v.m # 0
      [] v.t = "obj" -> DOMAIN v.o # {}
      [] v.t = "list" -> v.l # << >>

\* write_data for the one-table dict process_table passes: the table is
\* written when it has an entry in table_configs; an exception of _write_csv
\* is printed and swallowed
write_data(configs, fs, table_name, rows, fault) ==
    IF table_name \in DOMAIN configs /\ Truthy(rows)
    THEN LET fname == configs[table_name].filename
             w == _write_csv(fs[fname], configs[table_name].headers, rows, fault)
         IN  [fs EXCEPT ![fname] = w.file]
    ELSE fs

(***************************************************************************)
(* CSVWriter._load_schema_configs.  A line of schemas.ddl is the sequence   *)
(* of its white-space separated tokens; a token is a sequence of atoms,    *)
(* each a word or a punctuation mark, so "t2(" is <<"t2", "(">>.           *)
(***************************************************************************)
\* the text of a token
RECURSIVE JoinAtoms(_)
JoinAtoms(tok) == IF tok = << >> THEN "" ELSE Head(tok) \o JoinAtoms(Tail(tok))

\* str.strip(c) on a token
StripAtom(tok, c) ==
    LET keep == {i \in 1..Len(tok) : tok[i] # c}
    IN  IF keep = {} THEN << >> ELSE SubSeq(tok, MinOf(keep), MaxOf(keep))

\* line.startswith('CREATE TABLE')
StartsCreateTable(line) ==
    /\ Len(line) >= 2
    /\ line[1] = <<"CREATE">>
    /\ line[2] # << >>
    /\ line[2][1] = "TABLE"

\* line.startswith(c) for a punctuation mark c
StartsWithAtom(line, c) ==
    Len(line) >= 1 /\ line[1] # << >> /\ line[1][1] = c

\* the leading keywords of constraint lines, line 404
SkippedPrefixes == {"PRIMARY", "CONSTRAINT"}

\* one iteration of the loop of lines 393-405 on the stripped line; st is
\* configs, current_table ("" for None) and columns.  split()[2] on a CREATE
\* TABLE line of two tokens is an IndexError.
LoadLine(st, line) ==
    IF st = Raise THEN Raise
    ELSE IF StartsCreateTable(line) THEN
        IF Len(line) < 3 THEN Raise
        ELSE [st EXCEPT !.current_table = JoinAtoms(StripAtom(line[3], "(")),
                        !.columns = << >>]
    ELSE IF StartsWithAtom(line, ")") /\ st.current_table # "" THEN
        [st EXCEPT !.configs = [t \in DOMAIN st.configs \cup {st.current_table} |->
                                   IF t = st.current_table
                                   THEN [filename |-> st.current_table \o ".csv",
                                         headers |-> st.columns]
                                   ELSE st.configs[t]],
                   !.current_table = ""]
    ELSE IF st.current_table # "" /\ line # << >> /\ ~StartsWithAtom(line, "--") THEN
        LET col == StripAtom(line[1], ",")
        IN  IF col # << >> /\ col[1] \notin SkippedPrefixes
            THEN [st EXCEPT !.columns = Append(@, JoinAtoms(col))]
            ELSE st
    ELSE st

RECURSIVE LoadFrom(_, _, _)
LoadFrom(st, src, i) ==
    IF i > Len(src) THEN st ELSE LoadFrom(LoadLine(st, src[i]), src, i + 1)

\* the configs dict, or Raise
_load_schema_configs(src) ==
    LET st == LoadFrom([configs |-> << >>, current_table |-> "", columns |-> << >>],
                       src, 1)
    IN  IF st = Raise THEN Raise ELSE st.configs

(***************************************************************************)
(* PDFProcessor.process_table                                              *)
(***************************************************************************)
Seeds == {0, 1}

HashModulus == 10000

id_fields ==
    [financial_results |-> "financial_id",
     balance_sheet |-> "balance_sheet_id",
     cash_flow |-> "cash_flow_id",
     key_ratios |-> "ratio_id",
     outlook_or_management_discussion |-> "discussion_id",
     recommendations_or_targets |-> "recommendation_id"]

\* the documents of the model: Path(pdf_path).name
Filenames == {<<"a">>, <<"b">>}

FileCode(f) == IF f = <<"a">> THEN 1 ELSE 2

TableCode(tn) ==
    CASE tn = "company_info" -> 1
      [] tn = "shareholding_pattern" -> 2
      [] OTHER -> 3

\* hash() of a str.  Python salts str hashes with a per-process random seed:
\* the value is a function of the salt and of the string, not of the string
\* alone.  key is <<filename>> or <<filename, table, index>>.
PyHash(seed, key) ==
    LET code == IF Len(key) = 1 THEN FileCode(key[1])
                ELSE 100 * FileCode(key[1]) + 10 * TableCode(key[2]) + key[3]
    IN  7919 * code + 104729 * seed + 17

SetKey(o, k, v) == [x \in DOMAIN o \cup {k} |-> IF x = k THEN v ELSE o[x]]

\* list.index(x), zero-based
IndexOf(l, x) == MinOf({j \in 1..Len(l) : l[j] = x}) - 1

\* lines 459-474 for the i-th row, rows being updated in place
AssignRow(rows, i, table_name, filename, seed) ==
    LET r1 == SetKey(rows[i].o, "data_source", Str(filename))
        r2 == IF "company_id" \in DOMAIN r1 /\ ~Truthy(r1["company_id"])
              THEN SetKey(r1, "company_id",
                          IntV(PyHash(seed, <<filename>>) % HashModulus))
              ELSE r1
        rs == [rows EXCEPT ![i] = Obj(r2)]
        r3 == IF table_name \in DOMAIN id_fields /\ id_fields[table_name] \in DOMAIN r2
              THEN SetKey(r2, id_fields[table_name],
                          IntV(PyHash(seed, <<filename, table_name, IndexOf(rs, Obj(r2))>>)
                                 % HashModulus))
              ELSE r2
    IN  [rows EXCEPT ![i] = Obj(r3)]

RECURSIVE AssignFrom(_, _, _, _, _)
AssignFrom(rows, i, table_name, filename, seed) ==
    IF i > Len(rows) THEN rows
    ELSE AssignFrom(AssignRow(rows, i, table_name, filename, seed), i + 1,
                    table_name, filename, seed)

\* the loop of lines 458-474 over a list of dict rows
AssignIds(rows, table_name, filename, seed) ==
    Lst(AssignFrom(rows.l, 1, table_name, filename, seed))

\* the loop body raises TypeError on a row that is not a dict; iterating a
\* dict or a str yields strings, which are not dicts either
RowsAreDicts(rows) ==
    rows.t = "list" /\ \A i \in 1..Len(rows.l) : rows.l[i].t = "obj"

\* process_table: the outcome of one call.  env is what the collaborators do:
\* pdferr (extract_text raises), svcerr (generate_content raises) or a text.
\* ret is the returned bool; every exception is caught and gives False.
process_table(configs, fs, seed, filename, table_name, env, fault) ==
    LET rows == IF env.k = "pdferr" THEN Null ELSE get_table_data(table_name, env)
        failed == [ret |-> "False", fs |-> fs, data |-> rows, rowsOut |-> Null,
                   wrote |-> FALSE]
    IN  IF env.k = "pdferr" THEN failed
        ELSE IF ~Truthy(rows) THEN failed
        ELSE IF ~RowsAreDicts(rows) THEN failed
        ELSE LET out == AssignIds(rows, table_name, filename, seed)
             IN  [ret |-> IF fault.k = "crash" THEN "crashed" ELSE "True",
                  fs |-> write_data(configs, fs, table_name, out, fault),
                  data |-> rows,
                  rowsOut |-> out,
                  wrote |-> table_name \in DOMAIN configs]

(***************************************************************************)
(* Specification Spec: a sequence of process_table calls, with process     *)
(* restarts, against the output directory                                  *)
(***************************************************************************)
\* table_configs as _load_schema_configs returns it for two schema files: one
\* declaring both tables, one declaring shareholding_pattern only
ShareholdingConfig ==
    [filename |-> "shareholding_pattern.csv",
     headers |-> <<"company_id", "quarter", "mf_insti_holding_pct", "data_source">>]

CompanyInfoConfig ==
    [filename |-> "company_info.csv",
     headers |-> <<"company_id", "company_name", "data_source">>]

SchemaConfigs ==
    { [company_info |-> CompanyInfoConfig, shareholding_pattern |-> ShareholdingConfig],
      [shareholding_pattern |-> ShareholdingConfig] }

FileNames == {"company_info.csv", "shareholding_pattern.csv"}

\* the tables a caller asks for: two with a prompt, one without
TableNames == {"company_info", "shareholding_pattern", "key_ratios"}

\* rows a response may carry
RowNullId ==
    Obj([company_id |-> Null, quarter |-> Str(<<"Q", "1">>),
         mf_insti_holding_pct |-> Str(<<"1", ",", "2">>)])
RowNoId ==
    Obj([quarter |-> Str(<<"Q", "2">>), note |-> Str(<<"x">>)])
RowWithId ==
    Obj([company_id |-> IntV(7), mf_holding_pct |-> FloatV(FALSE, 125, 1),
         data_source |-> Str(<<"m">>)])
RowEmptyId ==
    Obj([company_id |-> Str(<< >>), quarter |-> Str(<<"2", "-", "2">>)])

RowElements == {RowNullId, RowNoId, RowWithId, RowEmptyId, IntV(5)}

RECURSIVE SeqsUpTo(_, _)
SeqsUpTo(S, n) ==
    IF n = 0 THEN {<< >>}
    ELSE LET P == SeqsUpTo(S, n - 1)
         IN  P \cup {Append(q, x) : q \in {y \in P : Len(y) = n - 1}, x \in S}

RowLists == SeqsUpTo(RowElements, MaxRows)

Payload(l) == Obj(Field("rows", Lst(l)))

TextEnv(text) == [k |-> "text", text |-> text]

\* the responses get_table_data is tried on: every row list bare, fenced
\* with and without the json tag, fenced without a closing fence, and inside
\* prose; an empty text, prose alone, and fenced documents without a rows list
ParseTexts ==
    { << >>,
      <<TXT>>,
      <<FENCE, WS, J(Obj(Field("data", Lst(<< >>)))), WS, FENCE>>,
      <<FENCE, TAG, WS, J(Lst(<<RowNullId>>)), WS, FENCE>>,
      <<FENCE, TAG, WS, J(Obj(Field("rows", Null))), WS, FENCE>> }
      \cup {<<J(Payload(l))>> : l \in RowLists}
      \cup {<<WS, J(Payload(l)), WS>> : l \in RowLists}
      \cup {<<FENCE, TAG, WS, J(Payload(l)), WS, FENCE>> : l \in RowLists}
      \cup {<<FENCE, WS, J(Payload(l)), WS, FENCE, WS>> : l \in RowLists}
      \cup {<<FENCE, TAG, J(Payload(l))>> : l \in RowLists}
      \cup {<<TXT, WS, J(Payload(l)), WS, TXT>> : l \in RowLists}

ParseEnvs == {[k |-> "svcerr"]} \cup {TextEnv(x) : x \in ParseTexts}

\* what the collaborators may do in one process_table call
Envs ==
    { [k |-> "pdferr"], [k |-> "svcerr"],
      TextEnv(<< >>),
      TextEnv(<<TXT>>),
      TextEnv(<<J(Payload(<<RowNullId>>))>>) }
      \cup {TextEnv(<<FENCE, TAG, WS, J(Payload(l)), WS, FENCE>>) : l \in RowLists}

\* what may happen to a write of nlines lines
Faults(nlines) ==
    {NoFault, [k |-> "open", n |-> 0]}
      \cup {[k |-> fk, n |-> n] : fk \in {"write", "crash"}, n \in 0..(nlines - 1)}

\* the faults that can strike a call: those of its write, if it reaches one
FaultsOf(configs, fs, seed, filename, table_name, env) ==
    LET res == process_table(configs, fs, seed, filename, table_name, env, NoFault)
        cfg == configs[table_name]
    IN  IF res.wrote
        THEN Faults(Len(CsvLines(fs[cfg.filename], cfg.headers, res.rowsOut)))
        ELSE {NoFault}

NoCall == [t |-> "none"]

\* the JSON documents a text contains
JsonValues(text) == {text[i].v : i \in {j \in 1..Len(text) : text[j].k = "json"}}

\* a call that fails for a per-table reason: the table has no prompt, the
\* service fails or answers nothing, the answer holds no JSON document, or
\* its rows array holds an element that is not an object
PerTableFailure(table_name, env) ==
    \/ table_name \notin Prompts
    \/ env.k = "svcerr"
    \/ /\ env.k = "text"
       /\ \/ JsonValues(env.text) = {}
          \/ \E v \in JsonValues(env.text) :
                /\ v.t = "obj"
                /\ "rows" \in DOMAIN v.o
                /\ v.o["rows"].t = "list"
                /\ \E i \in 1..Len(v.o["rows"].l) : v.o["rows"].l[i].t # "obj"

\* a row whose model-supplied company_id is absent, null or empty
Unpopulated(row) ==
    \/ "company_id" \notin DOMAIN row.o
    \/ row.o["company_id"] = Null
    \/ row.o["company_id"] = Str(<< >>)

Init ==
    /\ table_configs \in SchemaConfigs
    /\ files = [f \in FileNames |-> AbsentFile]
    /\ hashSeed \in Seeds
    /\ nRuns = 0
    /\ last = NoCall
    /\ runs = [f \in FileNames |-> << >>]
    /\ intact = [f \in FileNames |-> TRUE]
    /\ derived = {}
    /\ numIn = Null
    /\ numOut = Null
    /\ tdTable = ""
    /\ tdEnv = Null
    /\ tdOut = Null
    /\ cfile = Null
    /\ wr = << >>
    /\ sdEnv = Null
    /\ sdOut = Null
    /\ ddlSrc = << >>
    /\ ddlOut = Null

ProcessTable(filename, table_name, env) ==
    /\ nRuns < MaxRuns
    /\ \E fault \in FaultsOf(table_configs, files, hashSeed, filename, table_name, env) :
       \E res \in {process_table(table_configs, files, hashSeed, filename,
                                 table_name, env, fault)} :
         LET fname == table_configs[table_name].filename
             nhead == IF files[fname].exists THEN 0 ELSE 1
             \* the data rows that reached the file
             npers == IF fault.k = "none" THEN Len(res.rowsOut.l)
                      ELSE IF fault.k = "open" \/ fault.n <= nhead THEN 0
                      ELSE fault.n - nhead
             cidOf(i) == IF "company_id" \in DOMAIN res.rowsOut.l[i].o
                         THEN CellText(res.rowsOut.l[i].o["company_id"])
                         ELSE << >>
         IN  /\ files' = res.fs
             /\ nRuns' = nRuns + 1
             /\ last' = [t |-> "call", n |-> nRuns + 1, filename |-> filename,
                         table |-> table_name, env |-> env, fault |-> fault,
                         data |-> res.data, rowsOut |-> res.rowsOut,
                         ret |-> res.ret, wrote |-> res.wrote,
                         afterFailure |->
                             /\ last # NoCall
                             /\ last.ret = "False"
                             /\ PerTableFailure(last.table, last.env)]
             /\ IF res.wrote
                THEN /\ runs' = IF fault.k = "none"
                                THEN [runs EXCEPT ![fname] = Append(@, res.rowsOut)]
                                ELSE runs
                     /\ intact' = IF fault.k \in {"write", "crash"}
                                  THEN [intact EXCEPT ![fname] = FALSE]
                                  ELSE intact
                     /\ derived' = derived \cup
                          { <<filename, cidOf(i)>> :
                               i \in {j \in 1..npers : Unpopulated(res.data.l[j])} }
                ELSE UNCHANGED <<runs, intact, derived>>
             \* a crashed process is started again, with a new salt
             /\ IF res.ret = "crashed" THEN hashSeed' \in Seeds
                ELSE UNCHANGED hashSeed
    /\ UNCHANGED <<table_configs, numVars, tdVars, concVars, sdVars, ddlVars>>

\* the batch process ends and a new one is started: a new salt, the same
\* schema file and output directory
Restart ==
    /\ nRuns < MaxRuns
    /\ hashSeed' \in Seeds \ {hashSeed}
    /\ UNCHANGED <<table_configs, files, nRuns, last, runs, intact, derived, numVars, tdVars, concVars, sdVars, ddlVars>>

Next ==
    \/ \E filename \in Filenames, table_name \in TableNames, env \in Envs :
          ProcessTable(filename, table_name, env)
    \/ Restart

Spec == Init /\ [][Next]_vars

(***************************************************************************)
(* GeminiProcessor.clean_management_discussion                             *)
(***************************************************************************)
\* len(v); Raise for a value without a length
PyLen(v) ==
    CASE v.t = "str" -> Len(v.s)
      [] v.t = "list" -> Len(v.l)
      [] v.t = "obj" -> Cardinality(DOMAIN v.o)
      [] OTHER -> -1

\* max(l, key=len): the first element of greatest length; ValueError on an
\* empty list, TypeError on an element without a length
MaxByLen(l) ==
    IF l = << >> \/ \E i \in 1..Len(l) : PyLen(l[i]) < 0 THEN Raise
    ELSE l[MinOf({i \in 1..Len(l) : \A j \in 1..Len(l) : PyLen(l[i]) >= PyLen(l[j])})]

\* str(v)
PyStr(v) ==
    IF v.t = "null" THEN Str(<<"N", "o", "n", "e">>) ELSE Str(CellText(v))

\* s.split('\n')[0]
FirstLine(s) ==
    LET nl == {i \in 1..Len(s) : s[i] = "\n"}
    IN  IF nl = {} THEN s ELSE SubSeq(s, 1, MinOf(nl) - 1)

\* dict.get(k, default)
DictGet(o, k, default) == IF k \in DOMAIN o THEN o[k] ELSE default

clean_management_discussion(data) ==
    IF data.t # "obj" THEN (IF data.t \in {"list", "str"} THEN data ELSE Raise)
    ELSE IF "management_discussion" \notin DOMAIN data.o THEN data
    ELSE LET md == data.o["management_discussion"]
         IN  IF md.t # "obj" THEN Raise
             ELSE IF "discussion_text" \in DOMAIN md.o /\ md.o["discussion_text"].t = "str"
             THEN data
             ELSE LET dt == md.o["discussion_text"]
                      longest_text ==
                          IF "discussion_text" \notin DOMAIN md.o THEN Str(<< >>)
                          ELSE IF dt.t = "list" THEN MaxByLen(dt.l)
                          ELSE PyStr(dt)
                      tp == DictGet(md.o, "topic", Null)
                      topic == IF ~Truthy(tp) THEN Str(<< >>)
                               ELSE IF tp.t = "str" THEN Str(FirstLine(tp.s))
                               ELSE Raise
                  IN  IF longest_text = Raise \/ topic = Raise THEN Raise
                      ELSE Obj(SetKey(data.o, "management_discussion",
                               Obj([discussion_id |-> DictGet(md.o, "discussion_id", Null),
                                    company_id |-> DictGet(md.o, "company_id", Null),
                                    fiscal_period |-> DictGet(md.o, "fiscal_period", Null),
                                    topic |-> topic,
                                    discussion_text |-> longest_text,
                                    data_source |-> DictGet(md.o, "data_source", Str(<< >>))])))

(***************************************************************************)
(* GeminiProcessor.normalize_field_names                                   *)
(***************************************************************************)
\* field_mappings, in the order the dict is iterated
field_mappings ==
    << <<"mfi_instl_holding_pct", "mf_insti_holding_pct">>,
       <<"mf_holding_pct", "mf_insti_holding_pct">>,
       <<"institutional_holding_pct", "mf_insti_holding_pct">> >>

\* section[new_key] = section.pop(old_key)
RenameKey(o, old_key, new_key) ==
    IF old_key \in DOMAIN o
    THEN [k \in (DOMAIN o \ {old_key}) \cup {new_key} |->
             IF k = new_key THEN o[old_key] ELSE o[k]]
    ELSE o

RECURSIVE RenameFrom(_, _)
RenameFrom(o, i) ==
    IF i > Len(field_mappings) THEN o
    ELSE RenameFrom(RenameKey(o, field_mappings[i][1], field_mappings[i][2]), i + 1)

\* only the sections that are dicts are renamed; data is a dict in every
\* input of the model (indexing a list or a str by its own items raises)
normalize_field_names(data) ==
    IF data.t = "obj"
    THEN Obj([section \in DOMAIN data.o |->
                 IF data.o[section].t = "obj"
                 THEN Obj(RenameFrom(data.o[section].o, 1))
                 ELSE data.o[section]])
    ELSE IF PyLen(data) = 0 THEN data
    ELSE Raise

(***************************************************************************)
(* GeminiProcessor.get_structured_data                                     *)
(***************************************************************************)
get_empty_structure ==
    Obj([company_info |->
             Obj([company_id |-> Null, company_name |-> Str(<< >>),
                  bse_code |-> Str(<< >>), nse_code |-> Str(<< >>),
                  bloomberg_code |-> Str(<< >>), sector |-> Str(<< >>),
                  market_cap_cr |-> Null, enterprise_value_cr |-> Null,
                  outstanding_shares_cr |-> Null, beta |-> Null,
                  face_value_rs |-> Null, year_high_price_rs |-> Null,
                  year_low_price_rs |-> Null, data_source |-> Str(<< >>)]),
         shareholding |->
             Obj([company_id |-> Null, quarter |-> Str(<< >>),
                  promoter_holding_pct |-> Null, fii_holding_pct |-> Null,
                  mf_insti_holding_pct |-> Null, public_holding_pct |-> Null,
                  others_holding_pct |-> Null, data_source |-> Str(<< >>)])])

\* line 324: the replaced pattern is a line break and indentation before the
\* discussion_text key; the tokens of a text carry no layout, and removing
\* white space between JSON tokens does not change what parses
ReplaceDiscussionText(text) == text

\* a document whose text contains a brace
RECURSIVE HasBrace(_)
HasBrace(v) ==
    \/ v.t = "obj"
    \/ v.t = "list" /\ \E i \in 1..Len(v.l) : HasBrace(v.l[i])

\* json.loads of the span from the first '{' to the last '}' of a document
RECURSIVE BraceSpan(_)
BraceSpan(v) ==
    IF v.t = "obj" THEN v
    ELSE LET bs == {i \in 1..Len(v.l) : HasBrace(v.l[i])}
         IN  IF Cardinality(bs) = 1 THEN BraceSpan(v.l[MinOf(bs)]) ELSE DecodeError

\* lines 330-334: re.search(r'\{.*\}', text, re.DOTALL) and json.loads of the
\* match; Raise when nothing matches or the match does not parse
BraceMatch(text) ==
    LET bs == {i \in 1..Len(text) : text[i].k = "json" /\ HasBrace(text[i].v)}
    IN  IF bs = {} THEN Raise
        ELSE IF Cardinality(bs) > 1 THEN Raise
        ELSE LET v == BraceSpan(text[MinOf(bs)].v)
             IN  IF v = DecodeError THEN Raise ELSE v

\* lines 319-334
ParseStructured(text) ==
    LET d1 == json_loads(text)
        d2 == json_loads(ReplaceDiscussionText(text))
    IN  IF d1 # DecodeError THEN d1
        ELSE IF d2 # DecodeError THEN d2
        ELSE BraceMatch(text)

\* when generate_content raises, the handler's print of response.text raises
\* in turn and the exception leaves the function; every other exception gives
\* the empty structure
get_structured_data(env) ==
    IF env.k = "svcerr" THEN Raise
    ELSE LET data == ParseStructured(env.text)
             a == IF data = Raise THEN Raise ELSE clean_numeric_values(data)
             b == IF a = Raise THEN Raise ELSE clean_management_discussion(a)
             c == IF b = Raise THEN Raise ELSE normalize_field_names(b)
         IN  IF c = Raise THEN get_empty_structure ELSE c

(***************************************************************************)
(* Specification SpecNum: clean_numeric_values applied to one string       *)
(* placed at several nesting depths                                        *)
(***************************************************************************)
NumAlphabet == {"0", "1", ",", "-", ".", "Q"}

RECURSIVE StringsUpTo(_, _)
StringsUpTo(A, n) ==
    IF n = 0 THEN {<< >>}
    ELSE LET S == StringsUpTo(A, n - 1)
         IN  S \cup {Append(s, c) : s \in {x \in S : Len(x) = n - 1}, c \in A}

NumStrings ==
    StringsUpTo(NumAlphabet, MaxStrLen)
      \cup { <<"1", ",", "2", "3", "4", ".", "5", "0">>,
             <<"2", "0", "2", "3", "-", "2", "4">>,
             <<"1", ".", "2", ".", "3">>,
             <<"Q", "1">> }

\* the string as a dict value, in a nested dict, in a dict of a list, as a
\* list item, and in a dict of a top-level list
NumShapes(s) ==
    { Obj(Field("v", Str(s))),
      Obj(Field("v", Obj(Field("w", Str(s))))),
      Obj(Field("v", Lst(<<Obj(Field("w", Str(s)))>>))),
      Obj(Field("v", Lst(<<Str(s)>>))),
      Lst(<<Obj(Field("v", Str(s)))>>) }

NumInputs == UNION {NumShapes(s) : s \in NumStrings}

InitNum ==
    /\ numIn \in NumInputs
    /\ numOut = Pending
    /\ table_configs = << >>
    /\ files = << >>
    /\ hashSeed = 0
    /\ nRuns = 0
    /\ last = NoCall
    /\ runs = << >>
    /\ intact = << >>
    /\ derived = {}
    /\ tdTable = ""
    /\ tdEnv = Null
    /\ tdOut = Null
    /\ cfile = Null
    /\ wr = << >>
    /\ sdEnv = Null
    /\ sdOut = Null
    /\ ddlSrc = << >>
    /\ ddlOut = Null

CleanNumericValues ==
    /\ numOut = Pending
    /\ numOut' = clean_numeric_values(numIn)
    /\ UNCHANGED <<numIn, pipeVars, tdVars, concVars, sdVars, ddlVars>>

NextNum == CleanNumericValues

SpecNum == InitNum /\ [][NextNum]_vars

(***************************************************************************)
(* Specification SpecParse: get_table_data applied to one response         *)
(***************************************************************************)
InitParse ==
    /\ tdTable \in TableNames
    /\ tdEnv \in ParseEnvs
    /\ tdOut = Pending
    /\ table_configs = << >>
    /\ files = << >>
    /\ hashSeed = 0
    /\ nRuns = 0
    /\ last = NoCall
    /\ runs = << >>
    /\ intact = << >>
    /\ derived = {}
    /\ numIn = Null
    /\ numOut = Null
    /\ cfile = Null
    /\ wr = << >>
    /\ sdEnv = Null
    /\ sdOut = Null
    /\ ddlSrc = << >>
    /\ ddlOut = Null

GetTableData ==
    /\ tdOut = Pending
    /\ tdOut' = get_table_data(tdTable, tdEnv)
    /\ UNCHANGED <<tdTable, tdEnv, pipeVars, numVars, concVars, sdVars, ddlVars>>

NextParse == GetTableData

SpecParse == InitParse /\ [][NextParse]_vars

(***************************************************************************)
(* Specification SpecConc: two processes run _write_csv on the same table  *)
(* file.  Each step of a writer is one action: the existence check, the    *)
(* open, one writeheader/writerow into the buffer of the file object, a    *)
(* flush of the buffer (when it fills), and the close.                     *)
(***************************************************************************)
Writers == {"w1", "w2"}

ConcHeaders == ShareholdingConfig.headers

ConcRow(q, src) ==
    Obj([company_id |-> IntV(7), quarter |-> Str(<<"Q", q>>), data_source |-> Str(src)])

\* the rows each writer appends, and the rows an existing file holds
ConcBatches ==
    [w1 |-> {Lst(<<ConcRow("1", <<"a">>), ConcRow("2", <<"a">>)>>)},
     w2 |-> {Lst(<<ConcRow("3", <<"b">>)>>),
             Lst(<<ConcRow("3", <<"b">>), ConcRow("4", <<"b">>)>>)}]

OldBatch == Lst(<<ConcRow("0", <<"o">>)>>)

\* bytes no writer wrote: the gap left by a write beyond the end of the file
HoleLine == <<[hole |-> TRUE]>>

RECURSIVE Holes(_)
Holes(n) == IF n <= 0 THEN << >> ELSE <<HoleLine>> \o Holes(n - 1)

\* write(2) of buf at line offset off: overwrites what is there and extends
\* the file, leaving a hole when off is beyond its end
WriteAt(lines, off, buf) ==
    LET padded == lines \o Holes(off - Len(lines))
    IN  SubSeq(padded, 1, off) \o buf
          \o SubSeq(padded, off + Len(buf) + 1, Len(padded))

\* the buffer reaches the file: at the end of the file in mode 'a'
\* (O_APPEND), at the writer's own offset in mode 'w'
FlushInto(file, w) ==
    IF w.mode = "a" THEN FileOf(file.lines \o w.buf)
    ELSE FileOf(WriteAt(file.lines, w.off, w.buf))

InitConc ==
    /\ cfile \in {AbsentFile,
                  FileOf(<<writeheader(ConcHeaders)>>
                           \o CsvLines(FileOf(<< >>), ConcHeaders, OldBatch))}
    /\ wr \in [Writers -> {[pc |-> "exists", file_exists |-> FALSE, mode |-> "",
                            off |-> 0, buf |-> << >>, todo |-> << >>,
                            data |-> b] : b \in ConcBatches.w1 \cup ConcBatches.w2}]
    /\ wr["w1"].data \in ConcBatches.w1
    /\ wr["w2"].data \in ConcBatches.w2
    /\ table_configs = << >>
    /\ files = << >>
    /\ hashSeed = 0
    /\ nRuns = 0
    /\ last = NoCall
    /\ runs = << >>
    /\ intact = << >>
    /\ derived = {}
    /\ numIn = Null
    /\ numOut = Null
    /\ tdTable = ""
    /\ tdEnv = Null
    /\ tdOut = Null
    /\ sdEnv = Null
    /\ sdOut = Null
    /\ ddlSrc = << >>
    /\ ddlOut = Null

\* line 422
Exists(w) ==
    /\ wr[w].pc = "exists"
    /\ wr' = [wr EXCEPT ![w].pc = "open", ![w].file_exists = cfile.exists]
    /\ UNCHANGED <<cfile, pipeVars, numVars, tdVars, sdVars, ddlVars>>

\* lines 423-424: mode 'w' creates or truncates the file; mode 'a' leaves it
Open(w) ==
    /\ wr[w].pc = "open"
    /\ LET mode == OpenMode(wr[w].file_exists)
       IN  /\ wr' = [wr EXCEPT ![w].pc = "write", ![w].mode = mode, ![w].off = 0,
                               ![w].todo = CsvLines([exists |-> wr[w].file_exists],
                                                    ConcHeaders, wr[w].data)]
           /\ cfile' = IF mode = "w" THEN FileOf(<< >>) ELSE FileOf(cfile.lines)
    /\ UNCHANGED <<pipeVars, numVars, tdVars, sdVars, ddlVars>>

\* lines 427 and 433: one line goes into the buffer of the file object
WriteLine(w) ==
    /\ wr[w].pc = "write"
    /\ wr[w].todo # << >>
    /\ wr' = [wr EXCEPT ![w].buf = Append(@, Head(wr[w].todo)),
                        ![w].todo = Tail(@)]
    /\ UNCHANGED <<cfile, pipeVars, numVars, tdVars, sdVars, ddlVars>>

\* the buffer is written out before the close, as it is when it fills
Flush(w) ==
    /\ wr[w].pc = "write"
    /\ wr[w].buf # << >>
    /\ cfile' = FlushInto(cfile, wr[w])
    /\ wr' = [wr EXCEPT ![w].buf = << >>, ![w].off = @ + Len(wr[w].buf)]
    /\ UNCHANGED <<pipeVars, numVars, tdVars, sdVars, ddlVars>>

\* the end of the with block: the rest of the buffer is written, the file closed
Close(w) ==
    /\ wr[w].pc = "write"
    /\ wr[w].todo = << >>
    /\ cfile' = IF wr[w].buf = << >> THEN cfile ELSE FlushInto(cfile, wr[w])
    /\ wr' = [wr EXCEPT ![w].pc = "done", ![w].buf = << >>,
                        ![w].off = @ + Len(wr[w].buf)]
    /\ UNCHANGED <<pipeVars, numVars, tdVars, sdVars, ddlVars>>

NextConc ==
    \E w \in Writers :
        \/ Exists(w)
        \/ Open(w)
        \/ WriteLine(w)
        \/ Flush(w)
        \/ Close(w)

SpecConc == InitConc /\ [][NextConc]_vars

(***************************************************************************)
(* Specification SpecNorm: get_structured_data applied to one response     *)
(***************************************************************************)
Pct == FloatV(FALSE, 125, 1)

ShRows ==
    { Obj([quarter |-> Str(<<"Q", "1">>), mf_holding_pct |-> Pct]),
      Obj([quarter |-> Str(<<"Q", "1">>), mf_insti_holding_pct |-> Pct]),
      Obj([mfi_instl_holding_pct |-> IntV(1), institutional_holding_pct |-> IntV(2)]),
      Obj([mf_holding_pct |-> Str(<<"1", ",", "2">>)]) }

\* a section is one row or a list of rows
ShSections ==
    ShRows \cup {Lst(<<r>>) : r \in ShRows}
           \cup {Lst(<<Obj([quarter |-> Str(<<"Q", "0">>)]), r>>) : r \in ShRows}

DiscussionTexts ==
    { Str(<<"a", "b">>),
      Lst(<<Str(<<"a">>), Str(<<"a", "b", "c">>), Str(<<"a", "b">>)>>),
      Lst(<<Str(<<"a", "b", "c">>), Str(<<"x", "y", "z">>)>>),
      Lst(<< >>),
      IntV(5) }

Topics == {Null, Str(<<"Q">>), Str(<<"Q", "\n", "D">>)}

MdSections ==
    {Obj([discussion_text |-> d, topic |-> tp]) : d \in DiscussionTexts, tp \in Topics}
      \cup {Obj([discussion_text |-> d]) : d \in DiscussionTexts}
      \cup {Obj([topic |-> tp]) : tp \in Topics}
      \cup {Null}

SdDocs ==
    {Obj([shareholding |-> sh]) : sh \in ShSections}
      \cup {Obj([shareholding |-> sh, management_discussion |-> md]) :
               sh \in ShSections, md \in MdSections}

SdEnvs ==
    { [k |-> "svcerr"], TextEnv(<<TXT>>) }
      \cup {TextEnv(<<J(doc)>>) : doc \in SdDocs}
      \cup {TextEnv(<<FENCE, TAG, WS, J(doc), WS, FENCE>>) : doc \in SdDocs}
      \cup {TextEnv(<<TXT, WS, J(Lst(<<doc>>))>>) : doc \in SdDocs}

InitNorm ==
    /\ sdEnv \in SdEnvs
    /\ sdOut = Pending
    /\ table_configs = << >>
    /\ files = << >>
    /\ hashSeed = 0
    /\ nRuns = 0
    /\ last = NoCall
    /\ runs = << >>
    /\ intact = << >>
    /\ derived = {}
    /\ numIn = Null
    /\ numOut = Null
    /\ tdTable = ""
    /\ tdEnv = Null
    /\ tdOut = Null
    /\ cfile = Null
    /\ wr = << >>
    /\ ddlSrc = << >>
    /\ ddlOut = Null

GetStructuredData ==
    /\ sdOut = Pending
    /\ sdOut' = get_structured_data(sdEnv)
    /\ UNCHANGED <<sdEnv, pipeVars, numVars, tdVars, concVars, ddlVars>>

NextNorm == GetStructuredData

SpecNorm == InitNorm /\ [][NextNorm]_vars

(***************************************************************************)
(* Specification SpecSchema: _load_schema_configs applied to one source    *)
(***************************************************************************)
\* the lines a schema source is made of
DdlLines ==
    { <<<<"CREATE">>, <<"TABLE">>, <<"company_info">>, <<"(">>>>,
      <<<<"CREATE">>, <<"TABLE">>, <<"shareholding_pattern", "(">>>>,
      <<<<")", ";">>>>,
      <<<<"company_id">>, <<"INTEGER", ",">>>>,
      <<<<"quarter", ",">>>>,
      <<<<"--">>, <<"note">>>>,
      <<<<"PRIMARY">>, <<"KEY">>, <<"(", "company_id", ")", ",">>>>,
      <<<<"FOREIGN">>, <<"KEY">>, <<"(", "company_id", ")">>, <<"REFERENCES">>,
        <<"company_info", "(", "company_id", ")">>>>,
      <<<<"CONSTRAINT">>, <<"fk">>, <<"FOREIGN">>, <<"KEY">>, <<"(", "company_id", ")">>>>,
      << >> }

SchemaSources == SeqsUpTo(DdlLines, MaxDdlLines)

InitSchema ==
    /\ ddlSrc \in SchemaSources
    /\ ddlOut = Pending
    /\ table_configs = << >>
    /\ files = << >>
    /\ hashSeed = 0
    /\ nRuns = 0
    /\ last = NoCall
    /\ runs = << >>
    /\ intact = << >>
    /\ derived = {}
    /\ numIn = Null
    /\ numOut = Null
    /\ tdTable = ""
    /\ tdEnv = Null
    /\ tdOut = Null
    /\ cfile = Null
    /\ wr = << >>
    /\ sdEnv = Null
    /\ sdOut = Null

LoadSchemaConfigs ==
    /\ ddlOut = Pending
    /\ ddlOut' = _load_schema_configs(ddlSrc)
    /\ UNCHANGED <<ddlSrc, pipeVars, numVars, tdVars, concVars, sdVars>>

NextSchema == LoadSchemaConfigs

SpecSchema == InitSchema /\ [][NextSchema]_vars

(***************************************************************************)
(* Claims about the row store and process_table (Spec)                     *)
(***************************************************************************)
ConfigOfFile(f) ==
    table_configs[CHOOSE tn \in DOMAIN table_configs : table_configs[tn].filename = f]

WrittenFiles == {table_configs[tn].filename : tn \in DOMAIN table_configs}

RECURSIVE BatchLines(_, _)
BatchLines(headers, batches) ==
    IF batches = << >> THEN << >>
    ELSE [i \in 1..Len(Head(batches).l) |-> writerow(headers, Head(batches).l[i])]
           \o BatchLines(headers, Tail(batches))

RECURSIVE RowCount(_)
RowCount(batches) ==
    IF batches = << >> THEN 0 ELSE Len(Head(batches).l) + RowCount(Tail(batches))

\* C1: after N successful runs against a table file, with no concurrent
\* writer, the file holds one header row, as its first line, followed by
\* exactly the rows of run 1, run 2, ... run N; its data-row count is the sum
\* of the rows of the runs.  A run is successful when its write completed.
C1_AppendOnlyGrowth ==
    \A f \in WrittenFiles :
        LET H == ConfigOfFile(f).headers
        IN  intact[f] =>
              IF runs[f] = << >> THEN ~files[f].exists
              ELSE /\ files[f].exists
                   /\ files[f].lines = <<writeheader(H)>> \o BatchLines(H, runs[f])
                   /\ Len(files[f].lines) = 1 + RowCount(runs[f])
                   /\ \A i \in 2..Len(files[f].lines) :
                          files[f].lines[i] # writeheader(H)

\* two runs have appended to the same file
C1_Witness ==
    \E f \in WrittenFiles : intact[f] /\ Len(runs[f]) >= 2

\* the content of a file after all lines of an append reached it
FullAppend(file, headers, rows) ==
    FileOf(file.lines \o CsvLines(file, headers, rows))

\* C2: whatever interrupts an append of k rows, the file at the destination
\* path is either its pre-run content or its pre-run content plus all k rows
\* (with the header when the run created the file).
C2_AtomicWrite ==
    [][\A f \in WrittenFiles :
          \/ files'[f] = files[f]
          \/ /\ last'.wrote
             /\ files'[f] = FullAppend(files[f], ConfigOfFile(f).headers, last'.rowsOut)
      ]_vars

\* C3: every record has exactly the declared columns in declared order, the
\* header row is the declared column list, and a row written by the last call
\* carries, per declared column, the row's value for it or an empty field;
\* keys that are not declared columns are dropped.
C3_ColumnDiscipline ==
    \A f \in WrittenFiles :
        LET H == ConfigOfFile(f).headers
            L == files[f].lines
        IN  /\ \A i \in 1..Len(L) : Len(L[i]) = Len(H)
            /\ (intact[f] /\ files[f].exists) =>
                   \A c \in 1..Len(H) : L[1][c] = HeaderCell(H[c])
            /\ ( /\ last # NoCall
                 /\ last.wrote
                 /\ last.fault = NoFault
                 /\ table_configs[last.table].filename = f ) =>
                   LET rows == last.rowsOut.l
                       n == Len(rows)
                   IN  \A j \in 1..n : \A c \in 1..Len(H) :
                          L[Len(L) - n + j][c] =
                             IF H[c] \in DOMAIN rows[j].o
                             THEN TextCell(CellText(rows[j].o[H[c]]))
                             ELSE TextCell(<< >>)

\* the last call wrote a row that has a key outside the schema and lacks a
\* declared column
C3_Witness ==
    /\ last # NoCall
    /\ last.wrote
    /\ last.fault = NoFault
    /\ LET H == table_configs[last.table].headers
           cols == {H[c] : c \in 1..Len(H)}
       IN  \E j \in 1..Len(last.rowsOut.l) :
              /\ DOMAIN last.rowsOut.l[j].o \ cols # {}
              /\ cols \ DOMAIN last.rowsOut.l[j].o # {}

\* a call for a table with a prompt and a schema entry, whose response is a
\* fenced JSON document with a non-empty rows list of coercible objects, and
\* whose write nothing disturbs
GoodCall(c) ==
    /\ c.table \in Prompts
    /\ c.table \in DOMAIN table_configs
    /\ c.fault = NoFault
    /\ c.env.k = "text"
    /\ \E l \in RowLists :
          /\ c.env.text = <<FENCE, TAG, WS, J(Payload(l)), WS, FENCE>>
          /\ l # << >>
          /\ \A i \in 1..Len(l) : l[i].t = "obj" /\ clean_numeric_values(l[i]) # Raise

\* C6: a process_table call that fails for a per-table reason returns False
\* without raising and leaves every output file unchanged, and the next call
\* for a valid table succeeds and appends its rows.
C6_FailureContainment ==
    [][ nRuns' = nRuns + 1 =>
          /\ PerTableFailure(last'.table, last'.env) =>
                (last'.ret = "False" /\ files' = files)
          /\ (last'.afterFailure /\ GoodCall(last')) =>
                LET cfg == table_configs[last'.table]
                IN  /\ last'.ret = "True"
                    /\ files'[cfg.filename] =
                          FullAppend(files[cfg.filename], cfg.headers, last'.rowsOut)
                    /\ Len(files'[cfg.filename].lines) >=
                          Len(files[cfg.filename].lines) + Len(last'.rowsOut.l)
      ]_vars

\* a call succeeded and wrote right after a call that failed for a per-table
\* reason
C6_Witness ==
    /\ last # NoCall
    /\ last.afterFailure
    /\ last.ret = "True"
    /\ last.wrote
    /\ last.fault = NoFault

\* C8: the company_id persisted for a row whose model-supplied company_id is
\* absent, null or empty is a function of the document's filename only, and
\* is never unpopulated.
C8_DeterministicCompanyId ==
    /\ \A p \in derived : \A q \in derived : p[1] = q[1] => p[2] = q[2]
    /\ \A p \in derived : p[2] # << >>

\* C12: whenever process_table returns True for a table, the table has an
\* entry in the loaded schema configuration and the rows extracted in that
\* call have all been appended to the table's output file; so a call for a
\* table without an entry, or whose file write fails, does not return True.
C12_SuccessMeansPersisted ==
    [][ (nRuns' = nRuns + 1 /\ last'.ret = "True") =>
          /\ last'.table \in DOMAIN table_configs
          /\ LET cfg == table_configs[last'.table]
             IN  files'[cfg.filename] =
                    FullAppend(files[cfg.filename], cfg.headers, last'.rowsOut)
      ]_vars

(***************************************************************************)
(* Claims about _load_schema_configs (SpecSchema)                          *)
(***************************************************************************)
IsCreateLine(line) ==
    Len(line) >= 3 /\ line[1] = <<"CREATE">> /\ line[2] = <<"TABLE">>

IsCloseLine(line) == line # << >> /\ Head(Head(line)) = ")"

IsCommentLine(line) == line # << >> /\ Head(Head(line)) = "--"

\* primary-key, foreign-key and named constraint declarations
IsConstraintLine(line) ==
    line # << >> /\ Head(Head(line)) \in {"PRIMARY", "FOREIGN", "CONSTRAINT"}

IsColumnLine(line) ==
    /\ line # << >>
    /\ ~IsCreateLine(line)
    /\ ~IsCloseLine(line)
    /\ ~IsCommentLine(line)
    /\ ~IsConstraintLine(line)

\* the name a token carries, without its punctuation
NameOf(tok) == JoinAtoms(SelectSeq(tok, LAMBDA a : a \notin {"(", ")", ",", ";"}))

\* the blocks of a source: a CREATE TABLE line and the first closing line
\* after it, with no other CREATE TABLE line between them
DdlBlocks(src) ==
    { b \in (1..Len(src)) \X (1..Len(src)) :
        /\ b[1] < b[2]
        /\ IsCreateLine(src[b[1]])
        /\ IsCloseLine(src[b[2]])
        /\ \A k \in (b[1] + 1)..(b[2] - 1) :
              ~IsCreateLine(src[k]) /\ ~IsCloseLine(src[k]) }

\* every CREATE TABLE line opens a block that is closed
MadeOfBlocks(src) ==
    \A i \in 1..Len(src) :
        IsCreateLine(src[i]) => \E b \in DdlBlocks(src) : b[1] = i

\* the first tokens of the column-declaration lines of a block, in order
BlockColumns(src, b) ==
    LET decls == SelectSeq(SubSeq(src, b[1] + 1, b[2] - 1), IsColumnLine)
    IN  [i \in 1..Len(decls) |-> NameOf(decls[i][1])]

\* what the loader is to return: per table name the columns of its block
\* (of the last one, when a name has several)
ExpectedConfigs(src) ==
    LET B == DdlBlocks(src)
        names == {NameOf(src[b[1]][3]) : b \in B}
    IN  [t \in names |->
           LET b == CHOOSE x \in B :
                       /\ NameOf(src[x[1]][3]) = t
                       /\ \A y \in B : NameOf(src[y[1]][3]) = t => y[1] <= x[1]
           IN  [filename |-> t \o ".csv", headers |-> BlockColumns(src, b)]]

\* C11: for every schema source made of CREATE TABLE blocks, the loader maps
\* each table name to exactly the first tokens of the block's
\* column-declaration lines, in source order; comment lines and constraint
\* lines (primary-key and foreign-key declarations alike) contribute no
\* column, and lines outside any block contribute nothing.
C11_SchemaLoading ==
    (ddlOut # Pending /\ MadeOfBlocks(ddlSrc)) => ddlOut = ExpectedConfigs(ddlSrc)

(***************************************************************************)
(* Claims about concurrent writers (SpecConc)                              *)
(***************************************************************************)
BatchRecords(b) == [i \in 1..Len(b.l) |-> writerow(ConcHeaders, b.l[i])]

\* the rows the file held before the writers started: those of OldBatch when
\* a writer found the file, none otherwise
OldRecords(hadFile) == IF hadFile THEN BatchRecords(OldBatch) ELSE << >>

\* one header row, the earlier content, then complete batches of the writers
\* in some order, each at most once
WholeBatches(lines, hadFile) ==
    \E order \in {<< >>, <<"w1">>, <<"w2">>, <<"w1", "w2">>, <<"w2", "w1">>} :
        lines = <<writeheader(ConcHeaders)>> \o OldRecords(hadFile)
                  \o (IF Len(order) >= 1 THEN BatchRecords(wr[order[1]].data) ELSE << >>)
                  \o (IF Len(order) >= 2 THEN BatchRecords(wr[order[2]].data) ELSE << >>)

\* C7: with two writers on one table file, every reachable content of the
\* file is one header row followed by complete row batches; at worst one
\* writer's whole batch is missing.  No duplicated header, no truncated
\* earlier content, no overwritten or interleaved rows.
C7_ConcurrentWriters ==
    cfile.exists =>
        \/ WholeBatches(cfile.lines, TRUE)
        \/ WholeBatches(cfile.lines, FALSE)

(***************************************************************************)
(* Claims about get_structured_data (SpecNorm)                             *)
(***************************************************************************)
AliasKeys == {"mfi_instl_holding_pct", "mf_holding_pct", "institutional_holding_pct"}

\* the document of a response that holds one
InputDoc(env) ==
    LET i == CHOOSE j \in 1..Len(env.text) : env.text[j].k = "json"
        v == env.text[i].v
    IN  IF v.t = "list" THEN v.l[1] ELSE v

\* the result was computed from the response's document
Processed ==
    /\ sdOut.t = "obj"
    /\ sdEnv.k = "text"
    /\ JsonValues(sdEnv.text) # {}
    /\ sdOut # get_empty_structure

\* rout is rin normalized: no alias key is left, and the value of the one
\* alias of rin is under the canonical key
RowNormalized(rin, rout) ==
    /\ DOMAIN rout.o \cap AliasKeys = {}
    /\ \A a \in AliasKeys :
          (DOMAIN rin.o \cap AliasKeys = {a} /\ rin.o[a].t # "str") =>
              /\ "mf_insti_holding_pct" \in DOMAIN rout.o
              /\ rout.o["mf_insti_holding_pct"] = rin.o[a]

SectionNormalized(sin, sout) ==
    IF sin.t = "obj" THEN sout.t = "obj" /\ RowNormalized(sin, sout)
    ELSE IF sin.t = "list"
    THEN /\ sout.t = "list"
         /\ Len(sout.l) = Len(sin.l)
         /\ \A i \in 1..Len(sin.l) :
               sin.l[i].t = "obj" => (sout.l[i].t = "obj" /\ RowNormalized(sin.l[i], sout.l[i]))
    ELSE TRUE

\* C9: after normalization no row of any section, whether the section is one
\* object or a list of rows, contains an alias key; the alias's value is held
\* under mf_insti_holding_pct.
C9_AliasNormalization ==
    Processed =>
        \A section \in DOMAIN InputDoc(sdEnv).o :
            /\ section \in DOMAIN sdOut.o
            /\ section # "management_discussion" =>
                  SectionNormalized(InputDoc(sdEnv).o[section], sdOut.o[section])

\* C10: when a management_discussion section is present, its discussion_text
\* is a single string, the longest candidate, and its topic is the first line
\* of the original topic, whether discussion_text was a list or a string and
\* the topic single-line or multi-line.
C10_NarrativeCollapse ==
    (Processed /\ "management_discussion" \in DOMAIN sdOut.o) =>
        LET mi == InputDoc(sdEnv).o["management_discussion"].o
            mo == sdOut.o["management_discussion"].o
        IN  /\ mo["discussion_text"].t = "str"
            /\ ("discussion_text" \in DOMAIN mi /\ mi["discussion_text"].t = "str") =>
                   mo["discussion_text"] = mi["discussion_text"]
            /\ ("discussion_text" \in DOMAIN mi /\ mi["discussion_text"].t = "list") =>
                   /\ \E i \in 1..Len(mi["discussion_text"].l) :
                          mo["discussion_text"] = mi["discussion_text"].l[i]
                   /\ \A i \in 1..Len(mi["discussion_text"].l) :
                          Len(mo["discussion_text"].s) >= Len(mi["discussion_text"].l[i].s)
            /\ ("topic" \in DOMAIN mi /\ mi["topic"].t = "str") =>
                   /\ "topic" \in DOMAIN mo
                   /\ mo["topic"] = Str(FirstLine(mi["topic"].s))

(***************************************************************************)
(* Claims about get_table_data (SpecParse)                                 *)
(***************************************************************************)
HasRows(v) == v # DecodeError /\ v.t = "obj" /\ "rows" \in DOMAIN v.o /\ v.o["rows"].t = "list"

\* the first brace-delimited substring of a text: its first JSON object
FirstObject(text) ==
    LET objs == {i \in 1..Len(text) : text[i].k = "json" /\ text[i].v.t = "obj"}
    IN  IF objs = {} THEN DecodeError ELSE text[MinOf(objs)].v

\* the three strategies in order; the rows of the first that yields an object
\* with a rows array, Null when none does
Ladder(text) ==
    LET s1 == json_loads(text)
        s2 == json_loads(CleanMarkdown(text))
        s3 == FirstObject(text)
    IN  IF HasRows(s1) THEN s1.o["rows"]
        ELSE IF HasRows(s2) THEN s2.o["rows"]
        ELSE IF HasRows(s3) THEN s3.o["rows"]
        ELSE Null

\* C4: get_table_data returns the rows of the first of the three strategies
\* (direct parse, parse after fence stripping, parse of the first
\* brace-delimited substring) that yields an object with a rows array, and
\* null only when all three fail.
C4_ParseLadder ==
    (tdOut # Pending /\ tdTable \in Prompts /\ tdEnv.k = "text") =>
        LET r == Ladder(tdEnv.text)
        IN  IF r = Null THEN tdOut = Null
            ELSE tdOut # Null /\ tdOut.t = "list" /\ Len(tdOut.l) = Len(r.l)

(***************************************************************************)
(* C5: the reference coercion rule                                         *)
(***************************************************************************)
\* digits with optional thousands separators, at most one leading minus and
\* at most one decimal point
RefNumeric(s) ==
    /\ \A i \in 1..Len(s) : s[i] \in Digits \cup {",", "-", "."}
    /\ \E i \in 1..Len(s) : s[i] \in Digits
    /\ CountChar(s, ".") <= 1
    /\ CountChar(s, "-") <= 1
    /\ \A i \in 1..Len(s) : s[i] = "-" => i = 1

RECURSIVE Pow10(_)
Pow10(n) == IF n = 0 THEN 1 ELSE 10 * Pow10(n - 1)

\* the number a numeric string denotes, separators stripped
RefNumber(s) ==
    LET u == RemoveChars(s, {",", "-"})
        k == Cardinality({i \in 1..Len(u) : \E j \in 1..(i - 1) : u[j] = "."})
        d == RemoveChars(u, {"."})
        val == [i \in 1..Len(d) |-> DigitVal(d[i]) * Pow10(Len(d) - i)]
        RECURSIVE Sum(_)
        Sum(i) == IF i = 0 THEN 0 ELSE val[i] + Sum(i - 1)
    IN  NormFloat(CountChar(s, "-") = 1, Sum(Len(d)), k)

RefCoerce(s) ==
    IF s = << >> \/ s = <<"-">> THEN Null
    ELSE IF RefNumeric(s) THEN RefNumber(s)
    ELSE Str(s)

RECURSIVE RefClean(_)
RefClean(v) ==
    IF v.t = "str" THEN RefCoerce(v.s)
    ELSE IF v.t = "obj" THEN Obj([k \in DOMAIN v.o |-> RefClean(v.o[k])])
    ELSE IF v.t = "list" THEN Lst([i \in 1..Len(v.l) |-> RefClean(v.l[i])])
    ELSE v

\* C5: numeric coercion agrees with the reference rule on every string value
\* at any nesting depth: numeric strings become the equivalent number, "" and
\* "-" become null, every other string is unchanged, and coercion never
\* raises.
C5_NumericCoercion ==
    numOut # Pending => numOut = RefClean(numIn)

====
